---- MODULE Spec2Model ----
(***************************************************************************)
(* Basis builders of basisbuilder.py: Spline, ModSpline2 and ProductFunc,  *)
(* and BasisBuilder.build over a structured topology.                      *)
(*                                                                         *)
(* Conventions.  A Python tuple (shape, dofshape, ifaces) is a TLA+        *)
(* sequence.  A Python list or numpy array indexed by element is a         *)
(* function on 0..n-1, so that the source's indices (n-2, n+1, 0, -1) are  *)
(* kept.  A slice object is a record [start, stop].  A standard element is *)
(* represented by its number of shape functions (nshapes).  An exception   *)
(* is the name of its class; NoExc stands for normal return.               *)
(***************************************************************************)
EXTENDS Integers, Sequences, FiniteSets, TLC

VARIABLES basis, topo, result

vars == <<basis, topo, result>>

-----------------------------------------------------------------------------
(* Bounds of the model. *)

\* 1D specification: element counts 1..MaxElems, spline degrees 0..MaxDegree,
\* at most MaxIfaces interface positions per ModSpline2.
MaxElems == 8
MaxDegree == 3
MaxIfaces == 2

\* Products: builders of at most MaxDims axes, grids of at most MaxGridElems
\* elements.
MaxDims == 3
MaxGridElems == 9

-----------------------------------------------------------------------------
(* Python / numpy primitives used by the source. *)

NoExc == "none"

B2I(b) == IF b THEN 1 ELSE 0

max(a, b) == IF a >= b THEN a ELSE b

min(a, b) == IF a <= b THEN a ELSE b

slice(a, b) == [start |-> a, stop |-> b]

\* numpy.arange(n): the list 0, 1, ..., n-1 (empty for n <= 0).
arange(n) == [i \in 0 .. (n - 1) |-> i]

\* Python's list[k] index rule: a negative index counts from the end.
PyIndex(k, len) == IF k < 0 THEN k + len ELSE k

\* list[k] = v
ListSet(l, k, v) == [l EXCEPT ![PyIndex(k, Cardinality(DOMAIN l))] = v]

\* One bound of a slice applied to an axis of length len: negative bounds
\* count from the end, and every bound is clipped to 0..len.
SliceBound(x, len) == IF x < 0 THEN max(x + len, 0) ELSE min(x, len)

\* The indices slice s selects on an axis of length len, as [lo, hi).
SliceRange(s, len) ==
  LET lo == SliceBound(s.start, len)
      hi == SliceBound(s.stop, len)
  IN  <<lo, max(lo, hi)>>

RECURSIVE product(_)
\* numpy.product of a tuple
product(t) == IF Len(t) = 0 THEN 1 ELSE Head(t) * product(Tail(t))

RECURSIVE Insert(_, _)
Insert(s, x) ==
  IF Len(s) = 0 THEN <<x>>
  ELSE IF x <= Head(s) THEN <<x>> \o s
  ELSE <<Head(s)>> \o Insert(Tail(s), x)

RECURSIVE sort(_)
\* numpy.sort: the entries in ascending order
sort(s) == IF Len(s) = 0 THEN <<>> ELSE Insert(sort(Tail(s)), Head(s))

\* numpy.diff
diff(s) == [k \in 1 .. (Len(s) - 1) |-> s[k + 1] - s[k]]

-----------------------------------------------------------------------------
(* Extraction matrices and StdElem.extract.  A matrix is seen through its *)
(* shape <<rows, columns>>: extraction re-expresses `rows` shape functions *)
(* as `columns` new ones.                                                  *)

\* The literal matrices of ModSpline2.getstdelems, as written in the source.
IfaceMatrixA == << <<1, 0, 0, 0>>, <<0, 1, 0, 0>>, <<0, 0, 1, 1>> >>
IfaceMatrixB == << <<1, 0, 0>>, <<0, 1, 1>>, <<0, -1, 1>> >>
IfaceMatrixC == << <<1, 1, 0>>, <<-1, 1, 0>>, <<0, 0, 1>> >>
IfaceMatrixD == << <<-1, 1, 0, 0>>, <<0, 0, 1, 0>>, <<0, 0, 0, 1>> >>

MatShape(m) == <<Len(m), Len(m[1])>>

\* numpy.eye(n)[:,1:] and numpy.eye(n)[:,:-1]: n rows, one column fewer
\* (no column to drop when n = 0).
EyeDropFirst(n) == <<n, max(n - 1, 0)>>
EyeDropLast(n) == <<n, max(n - 1, 0)>>

\* stdelem.extract(matrix): the new element has one shape function per
\* column of the matrix.
extract(nshapes, mshape) == mshape[2]

\* element.PolyLine.spline(degree, nelems): nelems elements, each carrying
\* the degree+1 B-spline shape functions that are non-zero on it.
PolyLine_spline(degree, nelems) == [e \in 0 .. (nelems - 1) |-> degree + 1]

-----------------------------------------------------------------------------
(* class Spline *)

Spline(degree, rmfirst, rmlast) ==
  [cls |-> "Spline", degree |-> degree, rmfirst |-> rmfirst, rmlast |-> rmlast,
   ndims |-> 1]

Spline_getdofshape(self, nelems) ==
  <<nelems + self.degree - B2I(self.rmfirst) - B2I(self.rmlast)>>

Spline_getslices_NoShift(self, nelems) ==
  LET N == Spline_getdofshape(self, nelems)[1]
  IN  << [e \in 0 .. (nelems - 1) |->
            slice(max(0, arange(nelems)[e]),
                  min(N, arange(nelems)[e] + self.degree + 1))] >>

Spline_getslices_ShortWindow(self, nelems) ==
  LET N == Spline_getdofshape(self, nelems)[1]
      i(e) == arange(nelems)[e] - B2I(self.rmfirst)
  IN  << [e \in 0 .. (nelems - 1) |->
            slice(max(0, i(e)), min(N, i(e) + self.degree))] >>

Spline_getslices(self, nelems) ==
  LET N == Spline_getdofshape(self, nelems)[1]
      i(e) == arange(nelems)[e] - B2I(self.rmfirst)
  IN  << [e \in 0 .. (nelems - 1) |->
            slice(max(0, i(e)), min(N, i(e) + self.degree + 1))] >>

Spline_getstdelems(self, nelems) ==
  LET s0 == PolyLine_spline(self.degree, nelems)
      s1 == IF self.rmfirst
              THEN ListSet(s0, 0, extract(s0[PyIndex(0, nelems)],
                                          EyeDropFirst(s0[PyIndex(0, nelems)])))
              ELSE s0
      s2 == IF self.rmlast
              THEN ListSet(s1, -1, extract(s1[PyIndex(-1, nelems)],
                                           EyeDropLast(s1[PyIndex(-1, nelems)])))
              ELSE s1
  IN  s2

-----------------------------------------------------------------------------
(* class ModSpline2 *)

ModSpline2(ifaces, rmfirst, rmlast) ==
  [cls |-> "ModSpline2", ifaces |-> ifaces, rmfirst |-> rmfirst,
   rmlast |-> rmlast, ndims |-> 1]

\* line 92: negative positions count from the end, then numpy.sort
normalized_ifaces(self, nelems) ==
  sort([k \in 1 .. Len(self.ifaces) |->
          IF self.ifaces[k] < 0 THEN nelems + self.ifaces[k] ELSE self.ifaces[k]])

sorted_ifaces_assert_Spacing3(ifaces, nelems) ==
  /\ ifaces[1] >= 2
  /\ \A k \in DOMAIN diff(ifaces) : diff(ifaces)[k] >= 3
  /\ ifaces[Len(ifaces)] <= nelems - 2

\* line 93: the condition asserted on a non-empty sorted array
sorted_ifaces_assert(ifaces, nelems) ==
  /\ ifaces[1] >= 2
  /\ \A k \in DOMAIN diff(ifaces) : diff(ifaces)[k] >= 4
  /\ ifaces[Len(ifaces)] <= nelems - 2

\* What sorted_ifaces raises: ifaces[0] of an empty array is an IndexError,
\* a failed assert an AssertionError.
sorted_ifaces_raises(self, nelems) ==
  LET ifaces == normalized_ifaces(self, nelems)
  IN  IF Len(ifaces) = 0 THEN "IndexError"
      ELSE IF ~sorted_ifaces_assert(ifaces, nelems) THEN "AssertionError"
      ELSE NoExc

\* What sorted_ifaces returns (when it does not raise).
sorted_ifaces(self, nelems) == normalized_ifaces(self, nelems)

ModSpline2_getdofshape_PerIface(self, nelems) ==
  <<nelems + 2 + Len(self.ifaces) - B2I(self.rmfirst) - B2I(self.rmlast)>>

ModSpline2_getdofshape(self, nelems) ==
  <<nelems + 2 - B2I(self.rmfirst) - B2I(self.rmlast)>>

\* lines 103-105: the body of the loop over interfaces, for interface n
ModSpline2_patchslices_Narrow(self, nelems, slices, n) ==
  LET N == ModSpline2_getdofshape(self, nelems)[1]
      i == n - B2I(self.rmfirst)
      s1 == ListSet(slices, n - 2, slice(max(0, i - 2), i + 1))
  IN  ListSet(s1, n + 1, slice(i, min(N, i + 4)))

ModSpline2_patchslices(self, nelems, slices, n) ==
  LET N == ModSpline2_getdofshape(self, nelems)[1]
      i == n - B2I(self.rmfirst)
      s1 == ListSet(slices, n - 2, slice(max(0, i - 2), i + 2))
  IN  ListSet(s1, n + 1, slice(i, min(N, i + 4)))

RECURSIVE ModSpline2_slicesloop(_, _, _, _)
\* line 102: for n in sorted_ifaces, in order
ModSpline2_slicesloop(self, nelems, slices, ifaces) ==
  IF Len(ifaces) = 0 THEN slices
  ELSE ModSpline2_slicesloop(self, nelems,
         ModSpline2_patchslices(self, nelems, slices, Head(ifaces)), Tail(ifaces))

ModSpline2_getslices(self, nelems) ==
  LET N == ModSpline2_getdofshape(self, nelems)[1]
      i(e) == arange(nelems)[e] - B2I(self.rmfirst)
      slices == [e \in 0 .. (nelems - 1) |-> slice(max(0, i(e)), min(N, i(e) + 3))]
  IN  << ModSpline2_slicesloop(self, nelems, slices, sorted_ifaces(self, nelems)) >>

\* lines 111-114: the body of the loop over interfaces, for interface n
ModSpline2_patchstdelems(stdelems, n) ==
  LET nelems == Cardinality(DOMAIN stdelems)
      at(l, k) == l[PyIndex(k, nelems)]
      s1 == ListSet(stdelems, n - 2, extract(at(stdelems, n - 2), MatShape(IfaceMatrixA)))
      s2 == ListSet(s1, n - 1, extract(at(s1, n - 1), MatShape(IfaceMatrixB)))
      s3 == ListSet(s2, n + 0, extract(at(s2, n + 0), MatShape(IfaceMatrixC)))
  IN  ListSet(s3, n + 1, extract(at(s3, n + 1), MatShape(IfaceMatrixD)))

RECURSIVE ModSpline2_stdelemsloop(_, _)
\* line 110: for n in sorted_ifaces, in order
ModSpline2_stdelemsloop(stdelems, ifaces) ==
  IF Len(ifaces) = 0 THEN stdelems
  ELSE ModSpline2_stdelemsloop(ModSpline2_patchstdelems(stdelems, Head(ifaces)),
                               Tail(ifaces))

ModSpline2_getstdelems(self, nelems) ==
  LET s0 == ModSpline2_stdelemsloop(PolyLine_spline(2, nelems),
                                    sorted_ifaces(self, nelems))
      s1 == IF self.rmfirst
              THEN ListSet(s0, 0, extract(s0[PyIndex(0, nelems)],
                                          EyeDropFirst(s0[PyIndex(0, nelems)])))
              ELSE s0
      s2 == IF self.rmlast
              THEN ListSet(s1, -1, extract(s1[PyIndex(-1, nelems)],
                                           EyeDropLast(s1[PyIndex(-1, nelems)])))
              ELSE s1
  IN  s2

-----------------------------------------------------------------------------
(* class ProductFunc, and the dispatch of the three queries on the class   *)
(* of the builder.                                                         *)

\* BasisBuilder.__mul__ / ProductFunc.__init__
ProductFunc(func1, func2) ==
  [cls |-> "ProductFunc", func1 |-> func1, func2 |-> func2,
   ndims |-> func1.ndims + func2.ndims]

\* shape[:k] and shape[k:]
Prefix(shape, k) == SubSeq(shape, 1, min(k, Len(shape)))
Suffix(shape, k) == SubSeq(shape, min(k, Len(shape)) + 1, Len(shape))

\* The first exception raised by two calls made in this order.
First(exc1, exc2) == IF exc1 # NoExc THEN exc1 ELSE exc2

\* The element multi-indices of a grid of the given shape.
RECURSIVE Elements(_)
Elements(shape) ==
  IF Len(shape) = 0 THEN {<<>>}
  ELSE {<<h>> \o t : h \in 0 .. (shape[1] - 1), t \in Elements(Tail(shape))}

\* The 1D array of a 1D builder, indexed as a numpy array by <<e>>.
AsArray(list) == [e \in {<<k>> : k \in DOMAIN list} |-> list[e[1]]]

\* The tuple parameter (nelems,) of the 1D builders unpacks a shape of
\* length one only.
Unpack_raises(shape) == IF Len(shape) = 1 THEN NoExc ELSE "ValueError"

ProductFunc_split_BySecond(self, shape) ==
  <<Prefix(shape, self.func2.ndims), Suffix(shape, self.func2.ndims)>>

\* lines 45-46, 50-51, 55-56: shape[:func1.ndims] and shape[func1.ndims:]
ProductFunc_split(self, shape) ==
  <<Prefix(shape, self.func1.ndims), Suffix(shape, self.func1.ndims)>>

RECURSIVE getdofshape_raises(_, _)
getdofshape_raises(self, shape) ==
  IF self.cls = "ProductFunc"
    THEN IF Len(shape) # self.ndims THEN "AssertionError"
         ELSE First(getdofshape_raises(self.func1, ProductFunc_split(self, shape)[1]),
                    getdofshape_raises(self.func2, ProductFunc_split(self, shape)[2]))
    ELSE Unpack_raises(shape)

RECURSIVE getdofshape(_, _)
getdofshape(self, shape) ==
  CASE self.cls = "Spline" -> Spline_getdofshape(self, shape[1])
    [] self.cls = "ModSpline2" -> ModSpline2_getdofshape(self, shape[1])
    [] self.cls = "ProductFunc" ->
         getdofshape(self.func1, ProductFunc_split(self, shape)[1])
           \o getdofshape(self.func2, ProductFunc_split(self, shape)[2])

RECURSIVE getslices_raises(_, _)
getslices_raises(self, shape) ==
  CASE self.cls = "Spline" -> Unpack_raises(shape)
    [] self.cls = "ModSpline2" ->
         First(Unpack_raises(shape), sorted_ifaces_raises(self, shape[1]))
    [] self.cls = "ProductFunc" ->
         IF Len(shape) # self.ndims THEN "AssertionError"
         ELSE First(getslices_raises(self.func1, ProductFunc_split(self, shape)[1]),
                    getslices_raises(self.func2, ProductFunc_split(self, shape)[2]))

RECURSIVE getslices(_, _)
getslices(self, shape) ==
  CASE self.cls = "Spline" -> Spline_getslices(self, shape[1])
    [] self.cls = "ModSpline2" -> ModSpline2_getslices(self, shape[1])
    [] self.cls = "ProductFunc" ->
         getslices(self.func1, ProductFunc_split(self, shape)[1])
           \o getslices(self.func2, ProductFunc_split(self, shape)[2])

RECURSIVE getstdelems_raises(_, _)
getstdelems_raises(self, shape) ==
  CASE self.cls = "Spline" -> Unpack_raises(shape)
    [] self.cls = "ModSpline2" ->
         First(Unpack_raises(shape), sorted_ifaces_raises(self, shape[1]))
    [] self.cls = "ProductFunc" ->
         IF Len(shape) # self.ndims THEN "AssertionError"
         ELSE First(getstdelems_raises(self.func1, ProductFunc_split(self, shape)[1]),
                    getstdelems_raises(self.func2, ProductFunc_split(self, shape)[2]))

RECURSIVE getstdelems(_, _)
\* The array of standard elements, indexed by element multi-index.  The
\* product of two standard elements has the product of their shape counts.
getstdelems(self, shape) ==
  CASE self.cls = "Spline" -> AsArray(Spline_getstdelems(self, shape[1]))
    [] self.cls = "ModSpline2" -> AsArray(ModSpline2_getstdelems(self, shape[1]))
    [] self.cls = "ProductFunc" ->
         LET n1 == self.func1.ndims
             a1 == getstdelems(self.func1, ProductFunc_split(self, shape)[1])
             a2 == getstdelems(self.func2, ProductFunc_split(self, shape)[2])
         IN  [e \in Elements(shape) |-> a1[Prefix(e, n1)] * a2[Suffix(e, n1)]]

-----------------------------------------------------------------------------
(* BasisBuilder.build *)

\* The number of entries of a tuple that are negative.
RECURSIVE Unknowns(_)
Unknowns(t) == IF Len(t) = 0 THEN 0 ELSE B2I(Head(t) < 0) + Unknowns(Tail(t))

RECURSIVE Known(_)
\* The product of the entries of a tuple that are not negative.
Known(t) ==
  IF Len(t) = 0 THEN 1
  ELSE (IF Head(t) < 0 THEN 1 ELSE Head(t)) * Known(Tail(t))

\* numpy.arange(ndofs).reshape(dofshape): arange has max(ndofs, 0) entries; a
\* negative entry of dofshape is an unknown dimension that numpy infers, and
\* reshape raises ValueError when there are two of them or when the known
\* dimensions do not divide the size.
reshape_raises(size, dofshape) ==
  IF Unknowns(dofshape) = 0
    THEN IF Known(dofshape) = size THEN NoExc ELSE "ValueError"
  ELSE IF Unknowns(dofshape) > 1 THEN "ValueError"
  ELSE IF Known(dofshape) = 0 \/ size % Known(dofshape) # 0 THEN "ValueError"
  ELSE NoExc

\* The shape of the reshaped array.
reshape(size, dofshape) ==
  [k \in 1 .. Len(dofshape) |->
     IF dofshape[k] < 0 THEN size \div Known(dofshape) ELSE dofshape[k]]

\* Row-major (C order) strides of an array of the given shape.
Strides(ashape) == [k \in 1 .. Len(ashape) |-> product(SubSeq(ashape, k + 1, Len(ashape)))]

RECURSIVE Ravel(_, _, _, _, _)
\* dofs[s].ravel(): the entries of the block selected by the per-axis index
\* ranges, in row-major order.  dofs holds 0..size-1 in row-major order, so
\* the entry at a multi-index is the sum of index times stride.
Ravel(ranges, strides, k, j, base) ==
  IF k > Len(ranges) THEN <<base>>
  ELSE IF j >= ranges[k][2] THEN <<>>
  ELSE Ravel(ranges, strides, k + 1,
             IF k < Len(ranges) THEN ranges[k + 1][1] ELSE 0,
             base + j * strides[k])
         \o Ravel(ranges, strides, k, j + 1, base)

\* line 26: the flattened dofs selected for element e by the cartesian
\* combination of its per-axis slices
idx(ashape, slices, e) ==
  LET ranges == [k \in 1 .. Len(slices) |-> SliceRange(slices[k][e[k]], ashape[k])]
  IN  IF Len(ranges) = 0 THEN <<0>>
      ELSE Ravel(ranges, Strides(ashape), 1, ranges[1][1], 0)

\* What build returns when an exception leaves it: no function object.
Raised(exc) == [exc |-> exc, fmap |-> <<>>, nmap |-> <<>>, ndofs |-> 0, ndims |-> 0]

build_raises(self, shape) ==
  IF Len(shape) # self.ndims THEN "AssertionError"
  ELSE First(getdofshape_raises(self, shape),
       First(getslices_raises(self, shape),
       First(getstdelems_raises(self, shape),
             reshape_raises(max(product(getdofshape(self, shape)), 0),
                            getdofshape(self, shape)))))

\* build(topo), for a structured topology of the given shape
build(self, shape) ==
  IF build_raises(self, shape) # NoExc THEN Raised(build_raises(self, shape))
  ELSE
    LET dofshape == getdofshape(self, shape)
        slices == getslices(self, shape)
        stdelems == getstdelems(self, shape)
        ndofs == product(dofshape)
        ashape == reshape(max(ndofs, 0), dofshape)
    IN  [exc |-> NoExc,
         fmap |-> [e \in Elements(shape) |-> stdelems[e]],
         nmap |-> [e \in Elements(shape) |-> idx(ashape, slices, e)],
         ndofs |-> ndofs,
         ndims |-> Len(shape)]

-----------------------------------------------------------------------------
(* The specification: a 1D builder is constructed; builders are composed   *)
(* with * ; the current builder is built, any number of times, on          *)
(* structured topologies.                                                  *)

Unbuilt == Raised("unbuilt")

\* Interface positions as the caller writes them, counted from either end.
IfacePositions == (2 - MaxElems) .. (MaxElems - 2)

IfaceTuples == UNION {[1 .. k -> IfacePositions] : k \in 0 .. MaxIfaces}

Splines == {Spline(d, rf, rl) : d \in 0 .. MaxDegree, rf \in BOOLEAN, rl \in BOOLEAN}

ModSplines == {ModSpline2(t, rf, rl) : t \in IfaceTuples, rf \in BOOLEAN, rl \in BOOLEAN}

\* The 1D builders that take part in products.
ProdLeaves ==
  {Spline(1, FALSE, FALSE), Spline(0, TRUE, TRUE), Spline(2, FALSE, TRUE),
   ModSpline2(<<2>>, TRUE, FALSE)}

RECURSIVE Factors(_)
\* The 1D builders a builder is composed of, left to right.
Factors(b) ==
  IF b.cls = "ProductFunc" THEN Factors(b.func1) \o Factors(b.func2) ELSE <<b>>

\* The topologies of k axes: up to MaxElems elements in 1D, up to
\* MaxGridElems elements in all on a grid.
Topologies ==
  [k \in 1 .. MaxDims |->
     IF k = 1 THEN {<<n>> : n \in 1 .. MaxElems}
     ELSE {t \in [1 .. k -> 1 .. MaxGridElems] : product(t) <= MaxGridElems}]

\* One topology for each number of axes other than k.
OtherTopologies(k) == {[a \in 1 .. j |-> 1] : j \in (1 .. MaxDims) \ {k}}

Init ==
  /\ basis \in Splines \cup ModSplines
  /\ topo = <<>>
  /\ result = Unbuilt

\* basis * other
Mul ==
  \E other \in ProdLeaves :
    /\ basis.ndims < MaxDims
    /\ \A k \in DOMAIN Factors(basis) : Factors(basis)[k] \in ProdLeaves
    /\ basis' = ProductFunc(basis, other)
    /\ topo' = <<>>
    /\ result' = Unbuilt

\* other * basis
RMul ==
  \E other \in ProdLeaves :
    /\ basis.ndims < MaxDims
    /\ \A k \in DOMAIN Factors(basis) : Factors(basis)[k] \in ProdLeaves
    /\ basis' = ProductFunc(other, basis)
    /\ topo' = <<>>
    /\ result' = Unbuilt

\* basis.build(domain), the domain having as many axes as the builder.  A
\* behaviour follows one build call: build is a pure function of the
\* builder and the topology, so every call is the first call of a behaviour.
Build ==
  /\ result = Unbuilt
  /\ \E t \in Topologies[basis.ndims] :
    /\ topo' = t
    /\ result' = build(basis, t)
    /\ UNCHANGED basis

\* basis.build(domain), the domain having another number of axes
BuildOther ==
  /\ result = Unbuilt
  /\ \E t \in OtherTopologies(basis.ndims) :
    /\ topo' = t
    /\ result' = build(basis, t)
    /\ UNCHANGED basis

Next == Mul \/ RMul \/ Build \/ BuildOther

Spec == Init /\ [][Next]_vars

-----------------------------------------------------------------------------
(* Properties. *)

Built == result.exc = NoExc

\* A build has been called on a topology with as many axes as the builder.
Called == topo # <<>> /\ Len(topo) = basis.ndims

Width(s) == s.stop - s.start

\* The dof indices of the half-open range of a slice.
Dofs(s) == s.start .. (s.stop - 1)

\* The interface positions of a ModSpline2, counted from the start.
Positions(self, nelems) ==
  {IF self.ifaces[k] < 0 THEN nelems + self.ifaces[k] ELSE self.ifaces[k] :
     k \in DOMAIN self.ifaces}

\* The elements n-2 .. n+1 around interface position n.
Patch(n) == (n - 2) .. (n + 1)

\* C1: for every 1D builder whose queries succeed and every element e, the
\* width stop - start of getslices(...)[0][e] is the number of shape
\* functions of getstdelems(...)[e].
C1_SliceWidthIsShapeCount ==
  (basis.ndims = 1 /\ Called /\ getstdelems_raises(basis, topo) = NoExc) =>
    \A e \in 0 .. (topo[1] - 1) :
      Width(getslices(basis, topo)[1][e]) = getstdelems(basis, topo)[<<e>>]

\* The same, for the configurations with a dof count that is not negative:
\* the only 1D configuration left out is Spline(0, True, True) on one element.
SliceWidthIsShapeCountIfDofs ==
  (/\ basis.ndims = 1 /\ Called /\ getstdelems_raises(basis, topo) = NoExc
   /\ getdofshape(basis, topo)[1] >= 0) =>
    \A e \in 0 .. (topo[1] - 1) :
      Width(getslices(basis, topo)[1][e]) = getstdelems(basis, topo)[<<e>>]

\* The interface set is invalid on nelems elements: some position, counted
\* from the start, is below 2 or above nelems-2, or two of them are closer
\* than 4.
InvalidIfaces(self, nelems) ==
  LET pos == [k \in DOMAIN self.ifaces |->
                IF self.ifaces[k] < 0 THEN nelems + self.ifaces[k] ELSE self.ifaces[k]]
  IN  \/ \E k \in DOMAIN pos : pos[k] < 2 \/ pos[k] > nelems - 2
      \/ \E k, l \in DOMAIN pos :
           k # l /\ pos[k] - pos[l] < 4 /\ pos[l] - pos[k] < 4

\* C2: the build of a ModSpline2 with a non-empty interface set fails, with
\* the assertion of sorted_ifaces and without a function object, exactly
\* when the set is invalid, and returns a function otherwise.
C2_InvalidIfacesFail ==
  (basis.cls = "ModSpline2" /\ Called /\ Len(basis.ifaces) > 0) =>
    /\ InvalidIfaces(basis, topo[1]) =>
         result.exc = "AssertionError" /\ result.nmap = <<>> /\ result.fmap = <<>>
    /\ ~InvalidIfaces(basis, topo[1]) =>
         result.exc = NoExc /\ DOMAIN result.nmap = Elements(topo)

\* C2, witness: positions -3 and 2 on 8 elements are 5 and 2, closer than 4.
C2_Witness ==
  /\ basis.cls = "ModSpline2" /\ basis.ifaces = <<-3, 2>> /\ topo = <<8>>
  /\ result.exc = "AssertionError"

\* C3: a built ModSpline2 has nelems + 2 - removeFirst - removeLast dofs,
\* whatever its interfaces.
C3_ModSplineDofCount ==
  (basis.cls = "ModSpline2" /\ Called /\ Built) =>
    /\ result.ndofs = topo[1] + 2 - B2I(basis.rmfirst) - B2I(basis.rmlast)
    /\ (~basis.rmfirst /\ ~basis.rmlast) => result.ndofs = topo[1] + 2

\* C3, witness: two interfaces, first dof removed.
C3_Witness ==
  /\ basis.cls = "ModSpline2" /\ Len(basis.ifaces) = 2 /\ basis.rmfirst
  /\ ~basis.rmlast /\ Called /\ Built /\ result.ndofs = topo[1] + 1

\* C4: a Spline has N = nelems + degree - removeFirst - removeLast dofs,
\* element i has the slice [max(0, i-removeFirst), min(N, i-removeFirst+
\* degree+1)), and with no removal element i is given the dofs i..i+degree.
C4_SplineDofsAndSlices ==
  (basis.cls = "Spline" /\ Called /\ Built) =>
    LET rf == B2I(basis.rmfirst)
        rl == B2I(basis.rmlast)
        N == topo[1] + basis.degree - rf - rl
    IN  /\ getdofshape(basis, topo) = <<N>>
        /\ result.ndofs = N
        /\ \A i \in 0 .. (topo[1] - 1) :
             /\ getslices(basis, topo)[1][i].start = max(0, i - rf)
             /\ getslices(basis, topo)[1][i].stop = min(N, i - rf + basis.degree + 1)
        /\ (rf = 0 /\ rl = 0) =>
             \A i \in 0 .. (topo[1] - 1) :
               result.nmap[<<i>>] = [k \in 1 .. (basis.degree + 1) |-> i + k - 1]

\* C4, witness: Spline(1) on 4 elements: 5 dofs, element 0 has dofs 0, 1 and
\* element 3 has dofs 3, 4.
C4_Witness ==
  /\ basis = Spline(1, FALSE, FALSE) /\ topo = <<4>> /\ Built
  /\ result.ndofs = 5
  /\ result.nmap[<<0>>] = <<0, 1>>
  /\ result.nmap[<<3>>] = <<3, 4>>

\* The two ways of grouping a product of three builders.
LeftGrouped(fs) == ProductFunc(ProductFunc(fs[1], fs[2]), fs[3])
RightGrouped(fs) == ProductFunc(fs[1], ProductFunc(fs[2], fs[3]))

\* C5: the queries of a product are the concatenation of the queries of its
\* 1D factors, each on its own entry of the shape, whatever the grouping;
\* ndims is the number of factors; ndofs is the product of the dof shape
\* (Spline(1) * Spline(1) on a 3 x 3 grid: dof shape (4, 4), 16 dofs).
C5_ProductConcatenates ==
  Called =>
    LET fs == Factors(basis)
    IN  /\ basis.ndims = Len(fs)
        /\ getslices_raises(basis, topo) = NoExc
             <=> \A k \in DOMAIN fs : getslices_raises(fs[k], <<topo[k]>>) = NoExc
        /\ getdofshape_raises(basis, topo) = NoExc
        /\ getdofshape(basis, topo)
             = [k \in DOMAIN fs |-> getdofshape(fs[k], <<topo[k]>>)[1]]
        /\ getslices_raises(basis, topo) = NoExc =>
             getslices(basis, topo)
               = [k \in DOMAIN fs |-> getslices(fs[k], <<topo[k]>>)[1]]
        /\ Len(fs) = 3 =>
             /\ getdofshape(LeftGrouped(fs), topo) = getdofshape(RightGrouped(fs), topo)
             /\ getslices_raises(LeftGrouped(fs), topo)
                  = getslices_raises(RightGrouped(fs), topo)
             /\ getslices_raises(basis, topo) = NoExc =>
                  getslices(LeftGrouped(fs), topo) = getslices(RightGrouped(fs), topo)
        /\ Built =>
             /\ result.ndims = Len(fs)
             /\ result.ndofs = product(getdofshape(basis, topo))
        /\ (basis = ProductFunc(Spline(1, FALSE, FALSE), Spline(1, FALSE, FALSE))
              /\ topo = <<3, 3>>) =>
             Built /\ getdofshape(basis, topo) = <<4, 4>> /\ result.ndofs = 16

\* C5, witness: (Spline(1) * ModSpline2([2], rmfirst)) * Spline(2, rmlast) on
\* a 1 x 4 x 2 grid has dof shape (2, 5, 3) and 30 dofs.
C5_Witness ==
  /\ basis = LeftGrouped(<<Spline(1, FALSE, FALSE), ModSpline2(<<2>>, TRUE, FALSE),
                           Spline(2, FALSE, TRUE)>>)
  /\ topo = <<1, 4, 2>>
  /\ Built
  /\ result.ndofs = 30

\* C6: in a built basis every dof 0..ndofs-1 is among the dofs of some
\* element; on every axis the slices cover [0, N) and the slice of an element
\* starts no later than the slice of the element before it stops.
C6_NoOrphanDof ==
  (Called /\ Built) =>
    /\ \A d \in 0 .. (result.ndofs - 1) :
         \E e \in DOMAIN result.nmap :
           \E j \in DOMAIN result.nmap[e] : result.nmap[e][j] = d
    /\ \A k \in 1 .. Len(topo) :
         LET sl == getslices(basis, topo)[k]
             N == getdofshape(basis, topo)[k]
         IN  /\ UNION {Dofs(sl[e]) : e \in DOMAIN sl} = 0 .. (N - 1)
             /\ \A e \in 0 .. (topo[k] - 2) : sl[e + 1].start <= sl[e].stop

\* C6, witness: Spline(1) * ModSpline2([2], rmfirst) on a 2 x 4 grid, 15 dofs.
C6_Witness ==
  /\ basis = ProductFunc(Spline(1, FALSE, FALSE), ModSpline2(<<2>>, TRUE, FALSE))
  /\ topo = <<2, 4>>
  /\ Built
  /\ result.ndofs = 15

RECURSIVE WidthProduct(_, _, _)
\* The product over the axes k.. of the widths of the slices of element e.
WidthProduct(slices, e, k) ==
  IF k > Len(slices) THEN 1
  ELSE Width(slices[k][e[k]]) * WidthProduct(slices, e, k + 1)

\* C7: when, for some element, the shape count of getstdelems differs from
\* the slice width of getslices or from the number of dofs selected for the
\* element, build fails.
C7_BuildRejectsMismatch ==
  (/\ Called
   /\ getstdelems_raises(basis, topo) = NoExc
   /\ \E e \in Elements(topo) :
        \/ getstdelems(basis, topo)[e] # WidthProduct(getslices(basis, topo), e, 1)
        \/ Built /\ result.fmap[e] # Len(result.nmap[e])) =>
    result.exc # NoExc

\* The slices of a plain quadratic spline with the same flags.
StandardSlices(self, nelems) ==
  Spline_getslices(Spline(2, self.rmfirst, self.rmlast), nelems)[1]

\* C8 as stated: around every interface position n, with i = n - removeFirst,
\* the slices of elements n-2, n-1, n, n+1 are [i-2, i+2), [i-1, i+2),
\* [i, i+3), [i, i+4), of widths 4, 3, 3, 4; the other slices are standard.
C8_PatchSlicesUnclipped ==
  (basis.cls = "ModSpline2" /\ Called /\ Built) =>
    LET sl == getslices(basis, topo)[1]
        ps == Positions(basis, topo[1])
    IN  /\ \A n \in ps :
             LET i == n - B2I(basis.rmfirst)
             IN  /\ sl[n - 2] = slice(i - 2, i + 2)
                 /\ sl[n - 1] = slice(i - 1, i + 2)
                 /\ sl[n] = slice(i, i + 3)
                 /\ sl[n + 1] = slice(i, i + 4)
        /\ \A e \in DOMAIN sl :
             (\A n \in ps : e \notin Patch(n)) => sl[e] = StandardSlices(basis, topo[1])[e]

\* C8, amended: the slices of elements n-2 and n+1 are [max(0, i-2), i+2) and
\* [i, min(N, i+4)); they have width 4, except width 3 for element 0 when the
\* first dof is removed and for the last element when the last dof is
\* removed.  The slices of n-1 and n are [i-1, i+2) and [i, i+3); the other
\* slices are standard.
C8_PatchSlicesClipped ==
  (basis.cls = "ModSpline2" /\ Called /\ Built) =>
    LET sl == getslices(basis, topo)[1]
        ps == Positions(basis, topo[1])
        N == topo[1] + 2 - B2I(basis.rmfirst) - B2I(basis.rmlast)
    IN  /\ \A n \in ps :
             LET i == n - B2I(basis.rmfirst)
             IN  /\ sl[n - 2] = slice(max(0, i - 2), i + 2)
                 /\ Width(sl[n - 2]) = IF n - 2 = 0 /\ basis.rmfirst THEN 3 ELSE 4
                 /\ sl[n - 1] = slice(i - 1, i + 2)
                 /\ sl[n] = slice(i, i + 3)
                 /\ sl[n + 1] = slice(i, min(N, i + 4))
                 /\ Width(sl[n + 1]) = IF n + 1 = topo[1] - 1 /\ basis.rmlast THEN 3 ELSE 4
        /\ \A e \in DOMAIN sl :
             (\A n \in ps : e \notin Patch(n)) => sl[e] = StandardSlices(basis, topo[1])[e]

\* C8, witness: an interface at position 2 with the first dof removed: the
\* slice of element 0 is [0, 3); and one at nelems-2 with the last dof
\* removed: the slice of the last element has width 3.
C8_Witness ==
  /\ basis.cls = "ModSpline2" /\ Called /\ Built
  /\ basis.rmfirst /\ basis.rmlast
  /\ Positions(basis, topo[1]) = {2, topo[1] - 2}
  /\ getslices(basis, topo)[1][0] = slice(0, 3)
  /\ Width(getslices(basis, topo)[1][topo[1] - 1]) = 3

\* C9: a ModSpline2 without interfaces builds, and has the dof shape, the
\* slices and the dof count of Spline(2) with the same flags.
C9_NoIfacesIsSpline2 ==
  (basis.cls = "ModSpline2" /\ Len(basis.ifaces) = 0 /\ Called) =>
    /\ result.exc = NoExc
    /\ result.ndofs = topo[1] + 2 - B2I(basis.rmfirst) - B2I(basis.rmlast)
    /\ getdofshape(basis, topo)
         = getdofshape(Spline(2, basis.rmfirst, basis.rmlast), topo)
    /\ getslices(basis, topo)
         = getslices(Spline(2, basis.rmfirst, basis.rmlast), topo)

\* Every slice of the axis is a range inside 0..N.
WellFormedSlices(self, shape) ==
  LET N == getdofshape(self, shape)[1]
      sl == getslices(self, shape)[1]
  IN  /\ N >= 0
      /\ \A e \in DOMAIN sl : 0 <= sl[e].start /\ sl[e].start <= sl[e].stop /\ sl[e].stop <= N

\* The patches of the interfaces lie on the axis and do not share an element.
WellFormedPatches(self, nelems) ==
  LET ifaces == sorted_ifaces(self, nelems)
  IN  /\ \A k \in DOMAIN ifaces : Patch(ifaces[k]) \subseteq 0 .. (nelems - 1)
      /\ \A k, l \in DOMAIN ifaces :
           k # l => Patch(ifaces[k]) \cap Patch(ifaces[l]) = {}

\* C10: for every 1D builder whose getslices succeeds, N >= 0, every slice
\* [a, b) has 0 <= a <= b <= N, and the interface patches lie on the axis,
\* disjoint.
C10_SlicesWellFormed ==
  (basis.ndims = 1 /\ Called /\ getslices_raises(basis, topo) = NoExc) =>
    /\ WellFormedSlices(basis, topo)
    /\ basis.cls = "ModSpline2" => WellFormedPatches(basis, topo[1])

\* The same, for the configurations with a dof count that is not negative.
SlicesWellFormedIfDofs ==
  (/\ basis.ndims = 1 /\ Called /\ getslices_raises(basis, topo) = NoExc
   /\ getdofshape(basis, topo)[1] >= 0) =>
    /\ WellFormedSlices(basis, topo)
    /\ basis.cls = "ModSpline2" => WellFormedPatches(basis, topo[1])

====
